---- MODULE Spec2Model ----
(***************************************************************************)
(* A model of the runnable pieces of the afsify/nodejs notes repository:   *)
(*   - the note server (index.js, router/note.router.js),                  *)
(*   - the basic in-memory rate limiter of the rate-limiting notes,        *)
(*   - the JWT authentication snippets (authentication.authorization.js).  *)
(* Each piece has its own specification over the shared variable list; the *)
(* variables of the other pieces stay at their initial values.             *)
(***************************************************************************)
EXTENDS Integers, Sequences, FiniteSets, TLC

VARIABLES
    env,        \* process.env: PORT and CLIENT_URL               (index.js:1)
    mainPc,     \* next statement of index.js's top-level script
    db,         \* what connectDB() has been asked to do           (index.js:10)
    stack,      \* the app's middleware stack, in registration order
    views,      \* app settings "views" / "view engine" are set    (index.js:41-42)
    port,       \* const port                                      (index.js:45)
    listening,  \* app.listen has been called                      (index.js:48)
    alive,      \* the node process is running
    reqs,       \* per connection slot: the request in flight and its response
    requestCount, timers, now, arrivals, rlStatus,   \* rate limiter
    jwtReq, jwtPc, jwtUser, jwtStatus, jwtBody, jwtTrace,  \* JWT snippets
    loginReq, loginPc, loginStatus, loginToken,            \* /login routes
    wsClients, wsTicks,                                    \* WebSocket heartbeat
    numCPUs, masterPc, workers, exitEvents, nextId, deaths,
    restartOnExit, shutdownRan, served,                    \* cluster
    script, scPc, clock, microtasks, timerQ, immediates,
    listeners, output                                      \* stand-alone scripts

noteVars == <<env, mainPc, db, stack, views, port, listening, alive, reqs>>
rateVars == <<requestCount, timers, now, arrivals, rlStatus>>
jwtVars  == <<jwtReq, jwtPc, jwtUser, jwtStatus, jwtBody, jwtTrace>>
loginVars == <<loginReq, loginPc, loginStatus, loginToken>>
wsVars    == <<wsClients, wsTicks>>
clVars    == <<numCPUs, masterPc, workers, exitEvents, nextId, deaths,
               restartOnExit, shutdownRan, served>>
scVars    == <<script, scPc, clock, microtasks, timerQ, immediates, listeners, output>>
extVars   == <<loginVars, wsVars, clVars, scVars>>
vars     == <<env, mainPc, db, stack, views, port, listening, alive, reqs,
              requestCount, timers, now, arrivals, rlStatus,
              jwtReq, jwtPc, jwtUser, jwtStatus, jwtBody, jwtTrace,
              loginReq, loginPc, loginStatus, loginToken,
              wsClients, wsTicks,
              numCPUs, masterPc, workers, exitEvents, nextId, deaths,
              restartOnExit, shutdownRan, served,
              script, scPc, clock, microtasks, timerQ, immediates, listeners, output>>

-----------------------------------------------------------------------------
(* JavaScript values, as far as the top-level script needs them.           *)

JsUndefined == [type |-> "undefined", str |-> "", num |-> 0]
JsStr(s)    == [type |-> "string", str |-> s, num |-> 0]
JsNum(n)    == [type |-> "number", str |-> "", num |-> n]

\* ToBoolean: undefined, "" and 0 are falsy.
Truthy(v) ==
    CASE v.type = "undefined" -> FALSE
      [] v.type = "string"    -> v.str # ""
      [] v.type = "number"    -> v.num # 0

\* a || b
JsOr(a, b) == IF Truthy(a) THEN a ELSE b

\* a ?? b (what a nullish default would do instead)
JsNullish(a, b) == IF a.type = "undefined" THEN b ELSE a

\* Values process.env.PORT and process.env.CLIENT_URL are drawn from: an
\* environment variable is either absent or a string, possibly empty.
PortEnv   == {JsUndefined, JsStr(""), JsStr("3000"), JsStr("8080")}
ClientEnv == {JsUndefined, JsStr("http://localhost:3000")}

DefaultPort == 5000

PortExprNullish(e) == JsNullish(e.PORT, JsNum(DefaultPort))

\* process.env.PORT || 5000
PortExpr(e) == JsOr(e.PORT, JsNum(DefaultPort))

-----------------------------------------------------------------------------
(* index.js, top to bottom.                                                *)

ScriptCorsLast ==
    << "connectDB", "static", "json", "urlencoded", "cache", "cors", "router",
       "views", "port", "listen" >>

ScriptWithErrorHandler ==
    << "connectDB", "static", "json", "urlencoded", "cors", "cache", "router",
       "errorHandler", "views", "port", "listen" >>

Script ==
    << "connectDB", "static", "json", "urlencoded", "cors", "cache", "router",
       "views", "port", "listen" >>

LayerNames == {"static", "json", "urlencoded", "cors", "cache", "router", "errorHandler"}

\* Layers with the (err, req, res, next) signature: skipped unless an error is pending.
ErrorLayers == {"errorHandler"}

-----------------------------------------------------------------------------
(* Requests.                                                               *)

\* A URL path is its segments plus whether it ends with a slash; "/" is <<>>.
Path(segs, slash) == [segs |-> segs, slash |-> slash]

Paths ==
    { Path(<<>>, FALSE),
      Path(<<"express">>, FALSE), Path(<<"http">>, FALSE),
      Path(<<"express">>, TRUE),  Path(<<"HTTP">>, FALSE),
      Path(<<"notes">>, FALSE),   Path(<<"http", "intro">>, FALSE),
      Path(<<"css", "style.css">>, FALSE) }

Methods == {"GET", "HEAD", "POST", "PUT", "OPTIONS"}

\* What the request carries: nothing, well-formed JSON, malformed JSON, or a
\* well-formed urlencoded form.  Only POST and PUT requests carry a body.
Bodies(m) == IF m \in {"POST", "PUT"} THEN {"none", "json", "badjson", "form"} ELSE {"none"}

Requests ==
    { q \in [method : Methods, path : Paths, body : {"none", "json", "badjson", "form"}] :
        q.body \in Bodies(q.method) }

NoRequest == [method |-> "", path |-> Path(<<>>, FALSE), body |-> "none"]

\* Files assumed to lie under the "public" directory (not part of the sources).
PublicFiles == { <<"css", "style.css">> }

FreeSlot ==
    [ st |-> "free", q |-> NoRequest, idx |-> 1, ran |-> <<>>, out |-> <<>>,
      err |-> 0, status |-> 0, body |-> "", called |-> <<>>,
      cache |-> FALSE, acao |-> FALSE, parsed |-> "none", raised |-> "none" ]

NewSlot(q) == [FreeSlot EXCEPT !.st = "inflight", !.q = q]

\* next(): hand the request to the following layer.
PassOn(s, name) ==
    [s EXCEPT !.idx = @ + 1, !.ran = Append(@, name), !.out = Append(@, "next")]

\* next(err): the remaining non-error layers are skipped.
PassError(s, name, code) ==
    [s EXCEPT !.idx = @ + 1, !.ran = Append(@, name), !.out = Append(@, "error"),
              !.err = code]

\* The layer ends the response itself.
EndWith(s, name, code, body) ==
    [s EXCEPT !.st = "done", !.ran = Append(@, name), !.out = Append(@, "end"),
              !.status = code, !.body = body]

-----------------------------------------------------------------------------
(* The middleware of index.js, one operator per layer.                     *)

\* express.static(public): serves GET and HEAD requests for an existing file
\* and ends the response; everything else falls through.
StaticMw(s) ==
    IF /\ s.q.method \in {"GET", "HEAD"}
       /\ ~s.q.path.slash
       /\ s.q.path.segs \in PublicFiles
    THEN EndWith(s, "static", 200, "file")
    ELSE PassOn(s, "static")

\* express.json(): parses a JSON body; a malformed one is passed on as a 400 error.
JsonMw(s) ==
    CASE s.q.body = "json"    -> [PassOn(s, "json") EXCEPT !.parsed = "json"]
      [] s.q.body = "badjson" -> PassError(s, "json", 400)
      [] OTHER                -> PassOn(s, "json")

\* express.urlencoded({extended: false}): parses a form body not parsed before.
UrlencodedMw(s) ==
    IF s.q.body = "form" /\ s.parsed = "none"
    THEN [PassOn(s, "urlencoded") EXCEPT !.parsed = "urlencoded"]
    ELSE PassOn(s, "urlencoded")

\* cors({origin: process.env.CLIENT_URL, credentials, methods, allowedHeaders}):
\* without an origin option the layer does nothing; with one it answers an
\* OPTIONS request (the preflight) with 204 and otherwise only sets headers.
\* The methods list goes into a preflight header; no request is refused by it.
CorsAllowedMethods == {"GET", "POST", "PUT"}

CorsMw(s, e) ==
    IF ~Truthy(e.CLIENT_URL) THEN PassOn(s, "cors")
    ELSE IF s.q.method = "OPTIONS"
         THEN [EndWith(s, "cors", 204, "") EXCEPT !.acao = TRUE]
         ELSE [PassOn(s, "cors") EXCEPT !.acao = TRUE]

\* function (req, res, next) { res.header(Cache-Control ...); next(); }
CacheControlMw(s) == [PassOn(s, "cache") EXCEPT !.cache = TRUE]

\* The response object the cache-control layer writes its headers to: the
\* request's own.
ResShared(r) == 1

ResOf(r) == r

-----------------------------------------------------------------------------
(* router/note.router.js                                                    *)

Route(path, controller) == [path |-> path, controller |-> controller]

RoutesSwapped ==
    << Route(<<>>, "viewHome"),
       Route(<<"express">>, "viewHTTP"),
       Route(<<"http">>, "viewExpress") >>

\* note_router.get(path, controller), in registration order.
Routes ==
    << Route(<<>>, "viewHome"),
       Route(<<"express">>, "viewExpress"),
       Route(<<"http">>, "viewHTTP") >>

\* Methods a route registered with .get() handles (HEAD falls back to GET).
RouteMethodsAll == {"GET", "HEAD", "POST", "PUT"}

RouteMethods == {"GET", "HEAD"}

\* Lower-casing of a path segment, on the segments used here.
LowerSeg(x) ==
    CASE x = "Express" -> "express"
      [] x = "HTTP"    -> "http"
      [] OTHER         -> x

Lower(segs) == [i \in 1..Len(segs) |-> LowerSeg(segs[i])]

\* What mounting the handlers with use() instead of get() would match: a prefix.
PathMatchesPrefix(routePath, p) ==
    /\ Len(p.segs) >= Len(routePath)
    /\ Lower(SubSeq(p.segs, 1, Len(routePath))) = routePath

\* express.Router() defaults: caseSensitive and strict are off, so a route
\* matches its path in any letter case, with or without one trailing slash.
PathMatches(routePath, p) == Lower(p.segs) = routePath

Matching(p) == { i \in 1..Len(Routes) : PathMatches(Routes[i].path, p) }

FirstMatch(p) == CHOOSE i \in Matching(p) : \A j \in Matching(p) : i <= j

\* The router would call a controller for this request.
Dispatches(q) == q.method \in RouteMethods /\ Matching(q.path) # {}

\* The view each controller renders (the controllers are not in the sources).
ControllerView(c) ==
    CASE c = "viewHome"    -> "home"
      [] c = "viewExpress" -> "express"
      [] c = "viewHTTP"    -> "http"

\* A controller: res.render(view), which sends the page with status 200.
Controller(s, c) ==
    [EndWith(s, "router", 200, ControllerView(c)) EXCEPT !.called = Append(@, c)]

\* The router: the first route whose path and method match gets the request;
\* an OPTIONS request to a routed path is answered with the Allow header;
\* anything else leaves the router with next().
NoteRouter(s) ==
    IF Dispatches(s.q)
    THEN Controller(s, Routes[FirstMatch(s.q.path)].controller)
    ELSE IF s.q.method = "OPTIONS" /\ Matching(s.q.path) # {}
         THEN EndWith(s, "router", 200, "Allow: GET,HEAD")
         ELSE PassOn(s, "router")

\* Express's final handler: the pending error's status, or 404 when every
\* layer has passed the request on.
FinalHandler(s) ==
    [s EXCEPT !.st = "done", !.status = IF s.err # 0 THEN s.err ELSE 404,
              !.body = IF s.err # 0 THEN "error" ELSE "Cannot " \o s.q.method]

\* The layer registered under a name, applied to a request.
RunLayer(name, s, e) ==
    CASE name = "static"     -> StaticMw(s)
      [] name = "json"       -> JsonMw(s)
      [] name = "urlencoded" -> UrlencodedMw(s)
      [] name = "cors"       -> CorsMw(s, e)
      [] name = "cache"      -> CacheControlMw(s)
      [] name = "router"     -> NoteRouter(s)
      [] OTHER               -> PassOn(s, name)

-----------------------------------------------------------------------------
(* The note server as a state machine.                                     *)

NumInFlight == 2

Slots == 1..NumInFlight

NoteInit ==
    /\ env \in [PORT : PortEnv, CLIENT_URL : ClientEnv]
    /\ mainPc = 1
    /\ db = "idle"
    /\ stack = <<>>
    /\ views = FALSE
    /\ port = JsUndefined
    /\ listening = FALSE
    /\ alive = TRUE
    /\ reqs = [r \in Slots |-> FreeSlot]

Stmt == IF mainPc <= Len(Script) THEN Script[mainPc] ELSE "end"

\* connectDB(): started, not awaited.
ConnectDB ==
    /\ alive /\ Stmt = "connectDB"
    /\ db' = "pending"
    /\ mainPc' = mainPc + 1
    /\ UNCHANGED <<env, stack, views, port, listening, alive, reqs, rateVars, jwtVars, extVars>>

\* app.use(layer): the layer goes to the end of the stack.
Use ==
    /\ alive /\ Stmt \in LayerNames
    /\ stack' = Append(stack, Stmt)
    /\ mainPc' = mainPc + 1
    /\ UNCHANGED <<env, db, views, port, listening, alive, reqs, rateVars, jwtVars, extVars>>

\* app.set("views", ...); app.set("view engine", "ejs")
SetViews ==
    /\ alive /\ Stmt = "views"
    /\ views' = TRUE
    /\ mainPc' = mainPc + 1
    /\ UNCHANGED <<env, db, stack, port, listening, alive, reqs, rateVars, jwtVars, extVars>>

\* const port = process.env.PORT || 5000
DefinePort ==
    /\ alive /\ Stmt = "port"
    /\ port' = PortExpr(env)
    /\ mainPc' = mainPc + 1
    /\ UNCHANGED <<env, db, stack, views, listening, alive, reqs, rateVars, jwtVars, extVars>>

\* An app.listen that waits for the database connection.
ListenAfterDb ==
    /\ alive /\ Stmt = "listen" /\ db = "connected"
    /\ listening' = TRUE
    /\ mainPc' = mainPc + 1
    /\ UNCHANGED <<env, db, stack, views, port, alive, reqs, rateVars, jwtVars, extVars>>

\* app.listen(port, ...)
Listen ==
    /\ alive /\ Stmt = "listen"
    /\ listening' = TRUE
    /\ mainPc' = mainPc + 1
    /\ UNCHANGED <<env, db, stack, views, port, alive, reqs, rateVars, jwtVars, extVars>>

\* The connection started by connectDB() is established; like every
\* callback, this happens once the script has run to its end.
DbConnected ==
    /\ alive /\ db = "pending" /\ Stmt = "end"
    /\ db' = "connected"
    /\ UNCHANGED <<env, mainPc, stack, views, port, listening, alive, reqs, rateVars, jwtVars, extVars>>

\* The connection started by connectDB() fails.
DbFailed ==
    /\ alive /\ db = "pending" /\ Stmt = "end"
    /\ db' = "failed"
    /\ UNCHANGED <<env, mainPc, stack, views, port, listening, alive, reqs, rateVars, jwtVars, extVars>>

\* A request arrives on a free connection slot.
Arrive(r, q) ==
    /\ alive /\ listening
    /\ reqs[r].st = "free"
    /\ reqs' = [reqs EXCEPT ![r] = NewSlot(q)]
    /\ UNCHANGED <<env, mainPc, db, stack, views, port, listening, alive, rateVars, jwtVars, extVars>>

\* The request of slot r is about to enter the layer called name.
AtLayer(r, name) ==
    /\ alive
    /\ reqs[r].st = "inflight"
    /\ reqs[r].err = 0
    /\ reqs[r].idx <= Len(stack)
    /\ stack[reqs[r].idx] = name

Static(r) ==
    /\ AtLayer(r, "static")
    /\ reqs' = [reqs EXCEPT ![r] = StaticMw(reqs[r])]
    /\ UNCHANGED <<env, mainPc, db, stack, views, port, listening, alive, rateVars, jwtVars, extVars>>

Json(r) ==
    /\ AtLayer(r, "json")
    /\ reqs' = [reqs EXCEPT ![r] = JsonMw(reqs[r])]
    /\ UNCHANGED <<env, mainPc, db, stack, views, port, listening, alive, rateVars, jwtVars, extVars>>

Urlencoded(r) ==
    /\ AtLayer(r, "urlencoded")
    /\ reqs' = [reqs EXCEPT ![r] = UrlencodedMw(reqs[r])]
    /\ UNCHANGED <<env, mainPc, db, stack, views, port, listening, alive, rateVars, jwtVars, extVars>>

Cors(r) ==
    /\ AtLayer(r, "cors")
    /\ reqs' = [reqs EXCEPT ![r] = CorsMw(reqs[r], env)]
    /\ UNCHANGED <<env, mainPc, db, stack, views, port, listening, alive, rateVars, jwtVars, extVars>>

\* The headers go to the response object ResOf(r); next() moves request r on.
CacheControl(r) ==
    /\ AtLayer(r, "cache")
    /\ reqs' = [reqs EXCEPT ![r] = PassOn(reqs[r], "cache"),
                            ![ResOf(r)].cache = CacheControlMw(reqs[r]).cache]
    /\ UNCHANGED <<env, mainPc, db, stack, views, port, listening, alive, rateVars, jwtVars, extVars>>

Router(r) ==
    /\ AtLayer(r, "router")
    /\ reqs' = [reqs EXCEPT ![r] = NoteRouter(reqs[r])]
    /\ UNCHANGED <<env, mainPc, db, stack, views, port, listening, alive, rateVars, jwtVars, extVars>>

\* No layer is left, or an error is pending and no error handler is registered.
Final(r) ==
    /\ alive
    /\ reqs[r].st = "inflight"
    /\ reqs[r].err # 0 \/ reqs[r].idx > Len(stack)
    /\ reqs' = [reqs EXCEPT ![r] = FinalHandler(reqs[r])]
    /\ UNCHANGED <<env, mainPc, db, stack, views, port, listening, alive, rateVars, jwtVars, extVars>>

\* The response has been sent; the slot takes the next request.
Close(r) ==
    /\ alive
    /\ reqs[r].st = "done"
    /\ reqs' = [reqs EXCEPT ![r] = FreeSlot]
    /\ UNCHANGED <<env, mainPc, db, stack, views, port, listening, alive, rateVars, jwtVars, extVars>>

\* A controller throws while Express is calling it: the router catches the
\* exception and passes it on as an error (status 500).
ControllerThrows(r) ==
    /\ AtLayer(r, "router")
    /\ Dispatches(reqs[r].q)
    /\ reqs' = [reqs EXCEPT ![r] =
                  [PassError(reqs[r], "router", 500) EXCEPT
                      !.raised = "sync",
                      !.called = Append(@, Routes[FirstMatch(reqs[r].q.path)].controller)]]
    /\ UNCHANGED <<env, mainPc, db, stack, views, port, listening, alive, rateVars, jwtVars, extVars>>

\* A controller returns and a callback it started throws later, outside any
\* Express frame: nothing catches it and the process exits; every open
\* connection is dropped without a response.
ControllerThrowsAsync(r) ==
    /\ AtLayer(r, "router")
    /\ Dispatches(reqs[r].q)
    /\ alive' = FALSE
    /\ reqs' = [x \in Slots |->
                  IF x = r
                  THEN [reqs[r] EXCEPT
                          !.st = "dropped", !.raised = "async",
                          !.ran = Append(@, "router"), !.out = Append(@, "throw"),
                          !.called = Append(@, Routes[FirstMatch(reqs[r].q.path)].controller)]
                  ELSE IF reqs[x].st = "inflight"
                       THEN [reqs[x] EXCEPT !.st = "dropped"]
                       ELSE reqs[x]]
    /\ UNCHANGED <<env, mainPc, db, stack, views, port, listening, rateVars, jwtVars, extVars>>

-----------------------------------------------------------------------------
(* The basic in-memory rate limiter.                                       *)

rateLimit == 100

windowTime == 60 * 1000

\* Requests arrive, and the clock is observed, every half window.
RlTickStep == windowTime \div 2

MaxRlTicks == 2

MaxRlRequests == 102

RateInit ==
    /\ requestCount = 0
    /\ timers = <<>>
    /\ now = 0
    /\ arrivals = <<>>
    /\ rlStatus = 0

\* app.use((req, res, next) => {...}): count the request; over the limit,
\* answer 429 and return; otherwise schedule the decrement and go on to the
\* route, which answers 200.
RlRequest ==
    /\ Len(arrivals) < MaxRlRequests
    /\ requestCount' = requestCount + 1
    /\ arrivals' = Append(arrivals, now)
    /\ IF requestCount + 1 > rateLimit
       THEN /\ rlStatus' = 429
            /\ timers' = timers
       ELSE /\ rlStatus' = 200
            /\ timers' = Append(timers, now + windowTime)
    /\ UNCHANGED <<now, noteVars, jwtVars, extVars>>

\* Timers whose deadline has been reached at time t.
Due(t) == { i \in 1..Len(timers) : timers[i] <= t }

\* Time passes; the event loop's timers phase then runs every callback
\* () => requestCount-- that has become due.
RlTick ==
    /\ now < MaxRlTicks * RlTickStep
    /\ now' = now + RlTickStep
    /\ requestCount' = requestCount - Cardinality(Due(now + RlTickStep))
    /\ timers' = SubSeq(timers, Cardinality(Due(now + RlTickStep)) + 1, Len(timers))
    /\ rlStatus' = 0
    /\ UNCHANGED <<arrivals, noteVars, jwtVars, extVars>>

-----------------------------------------------------------------------------
(* The JWT snippets.                                                        *)

\* One space-separated piece of an Authorization header: a scheme name, an
\* empty piece (two spaces in a row), a string that is no JWT, or a JWT with
\* the key it was signed with, its payload and whether it has expired.
Word(kind, key, uid, role, expired) ==
    [kind |-> kind, key |-> key, uid |-> uid, role |-> role, expired |-> expired]

NoWord  == Word("undefined", "", 0, "", FALSE)
Bearer  == Word("scheme", "", 0, "", FALSE)
Empty   == Word("empty", "", 0, "", FALSE)
Garbage == Word("garbage", "", 0, "", FALSE)
Jwt(key, uid, role, expired) == Word("jwt", key, uid, role, expired)

\* users of the full example, as /login signs them.
AdminToken == Jwt("secret_key", 1, "admin", FALSE)
UserToken  == Jwt("secret_key", 2, "user", FALSE)

JwtTokens ==
    { AdminToken, UserToken,
      Jwt("secret_key", 1, "admin", TRUE),
      Jwt("other_key", 1, "admin", FALSE),
      Jwt("secret_key", 3, "", FALSE),
      Jwt("your_jwt_secret_key", 1, "", FALSE),
      Garbage }

\* req.headers["authorization"]: absent, or a string seen as its pieces.
Header(present, words) == [present |-> present, words |-> words]

JwtHeaders ==
    { Header(FALSE, <<>>), Header(TRUE, <<Bearer>>),
      Header(TRUE, <<Empty>>), Header(TRUE, <<AdminToken>>),
      Header(TRUE, <<Bearer, Empty, AdminToken>>),
      Header(TRUE, <<Bearer, UserToken, Garbage>>) }
    \cup { Header(TRUE, <<Bearer, tok>>) : tok \in JwtTokens }

JwtApps == {"snippet", "full"}

\* The secret each example verifies with.
Secret(app) == IF app = "full" THEN "secret_key" ELSE "your_jwt_secret_key"

\* The routes each example protects with authenticateToken.
JwtRoutes(app) == IF app = "full" THEN {"/admin", "/user"} ELSE {"/protected"}

NoJwtRequest == [app |-> "", route |-> "", header |-> Header(FALSE, <<>>)]

JwtInit ==
    /\ jwtReq = NoJwtRequest
    /\ jwtPc = "idle"
    /\ jwtUser = NoWord
    /\ jwtStatus = 0
    /\ jwtBody = ""
    /\ jwtTrace = <<>>

\* authHeader && authHeader.split(" ")[1]
TokenOf(h) ==
    IF ~h.present THEN NoWord
    ELSE IF Len(h.words) >= 2 THEN h.words[2] ELSE NoWord

\* !token
Falsy(tok) == tok.kind \in {"undefined", "empty"}

VerifyErrUnsigned(tok, secret) == ~(tok.kind = "jwt" /\ ~tok.expired)

\* jwt.verify(token, secret, cb) calls back with err unless the token is a JWT
\* signed with the secret and not expired.
VerifyErr(tok, secret) == ~(tok.kind = "jwt" /\ tok.key = secret /\ ~tok.expired)

JwtArrive(app, route, h) ==
    /\ jwtPc = "idle"
    /\ jwtReq' = [app |-> app, route |-> route, header |-> h]
    /\ jwtPc' = "auth"
    /\ jwtUser' = NoWord
    /\ jwtStatus' = 0
    /\ jwtBody' = ""
    /\ jwtTrace' = <<>>
    /\ UNCHANGED <<noteVars, rateVars, extVars>>

\* authenticateToken(req, res, next), with the callback of jwt.verify.
AuthenticateToken ==
    /\ jwtPc = "auth"
    /\ LET token == TokenOf(jwtReq.header) IN
       IF Falsy(token)
       THEN /\ jwtStatus' = 401
            /\ jwtBody' = "Unauthorized"
            /\ jwtPc' = "done"
            /\ jwtUser' = jwtUser
            /\ jwtTrace' = jwtTrace \o <<"authenticateToken", "res">>
       ELSE IF VerifyErr(token, Secret(jwtReq.app))
       THEN /\ jwtStatus' = 403
            /\ jwtBody' = "Forbidden"
            /\ jwtPc' = "done"
            /\ jwtUser' = jwtUser
            /\ jwtTrace' = jwtTrace \o <<"authenticateToken", "res">>
       ELSE /\ jwtUser' = token
            /\ jwtPc' = "handler"
            /\ jwtTrace' = jwtTrace \o <<"authenticateToken", "next">>
            /\ UNCHANGED <<jwtStatus, jwtBody>>
    /\ UNCHANGED <<jwtReq, noteVars, rateVars, extVars>>

\* app.get("/admin", authenticateToken, (req, res) => {...})
AdminHandler ==
    /\ jwtPc = "handler" /\ jwtReq.route = "/admin"
    /\ IF jwtUser.role # "admin"
       THEN jwtStatus' = 403 /\ jwtBody' = "Access denied"
       ELSE jwtStatus' = 200 /\ jwtBody' = "Welcome Admin!"
    /\ jwtPc' = "done"
    /\ jwtTrace' = jwtTrace \o <<"handler", "res">>
    /\ UNCHANGED <<jwtReq, jwtUser, noteVars, rateVars, extVars>>

\* app.get("/user", authenticateToken, (req, res) => {...})
UserHandler ==
    /\ jwtPc = "handler" /\ jwtReq.route = "/user"
    /\ jwtStatus' = 200 /\ jwtBody' = "Welcome User"
    /\ jwtPc' = "done"
    /\ jwtTrace' = jwtTrace \o <<"handler", "res">>
    /\ UNCHANGED <<jwtReq, jwtUser, noteVars, rateVars, extVars>>

\* app.get("/protected", authenticateToken, (req, res) => {...})
ProtectedHandler ==
    /\ jwtPc = "handler" /\ jwtReq.route = "/protected"
    /\ jwtStatus' = 200 /\ jwtBody' = "This is a protected route"
    /\ jwtPc' = "done"
    /\ jwtTrace' = jwtTrace \o <<"handler", "res">>
    /\ UNCHANGED <<jwtReq, jwtUser, noteVars, rateVars, extVars>>

\* The response is out; the next request can come.
JwtClose ==
    /\ jwtPc = "done"
    /\ jwtPc' = "idle"
    /\ UNCHANGED <<jwtReq, jwtUser, jwtStatus, jwtBody, jwtTrace, noteVars, rateVars, extVars>>

-----------------------------------------------------------------------------
(* The /login routes of the JWT snippets.                                   *)

\* const users = [...] of the full example.
Users ==
    << [id |-> 1, username |-> "admin", password |-> "password", role |-> "admin"],
       [id |-> 2, username |-> "user",  password |-> "password", role |-> "user"] >>

LoginApps == {"snippet", "errors", "full"}

\* req.body of a login request.
Credentials ==
    [username : {"admin", "user", "Admin", "nobody", ""}, password : {"password", "wrong", ""}]

NoLogin == [app |-> "", username |-> "", password |-> ""]

LoginInit ==
    /\ loginReq = NoLogin
    /\ loginPc = "idle"
    /\ loginStatus = 0
    /\ loginToken = NoWord

LoginArrive(app, c) ==
    /\ loginPc = "idle"
    /\ loginReq' = [app |-> app, username |-> c.username, password |-> c.password]
    /\ loginPc' = "handler"
    /\ loginStatus' = 0
    /\ loginToken' = NoWord
    /\ UNCHANGED <<noteVars, rateVars, jwtVars, wsVars, clVars, scVars>>

\* "2. Generate a Token after successful login": the body is read, the user
\* object is built from the submitted username and signed; nothing is compared.
LoginSnippet ==
    /\ loginPc = "handler" /\ loginReq.app = "snippet"
    /\ loginToken' = Jwt("your_jwt_secret_key", 1, "", FALSE)
    /\ loginStatus' = 200
    /\ loginPc' = "done"
    /\ UNCHANGED <<loginReq, noteVars, rateVars, jwtVars, wsVars, clVars, scVars>>

\* "Example of Authentication Error Handling": 401 unless admin/password;
\* the token generation is left out, so the handler then ends without a response.
LoginErrors ==
    /\ loginPc = "handler" /\ loginReq.app = "errors"
    /\ IF loginReq.username # "admin" \/ loginReq.password # "password"
       THEN loginStatus' = 401
       ELSE loginStatus' = 0
    /\ loginToken' = NoWord
    /\ loginPc' = "done"
    /\ UNCHANGED <<loginReq, noteVars, rateVars, jwtVars, wsVars, clVars, scVars>>

\* users.find((u) => u.username === username && u.password === password)
FindUser(username, password) ==
    { i \in 1..Len(Users) : Users[i].username = username /\ Users[i].password = password }

\* The login route of the full example.
LoginFull ==
    /\ loginPc = "handler" /\ loginReq.app = "full"
    /\ LET found == FindUser(loginReq.username, loginReq.password) IN
       IF found = {}
       THEN loginStatus' = 401 /\ loginToken' = NoWord
       ELSE LET user == Users[CHOOSE i \in found : \A j \in found : i <= j] IN
            /\ loginToken' = Jwt("secret_key", user.id, user.role, FALSE)
            /\ loginStatus' = 200
    /\ loginPc' = "done"
    /\ UNCHANGED <<loginReq, noteVars, rateVars, jwtVars, wsVars, clVars, scVars>>

LoginClose ==
    /\ loginPc = "done"
    /\ loginPc' = "idle"
    /\ UNCHANGED <<loginReq, loginStatus, loginToken,
                   noteVars, rateVars, jwtVars, wsVars, clVars, scVars>>

-----------------------------------------------------------------------------
(* The WebSocket ping/pong heartbeat.                                       *)

NumClients == 2

MaxWsTicks == 4

WsIds == 1..NumClients

\* A client socket: st is "absent", "open" or "terminated"; isAlive is the
\* property the interval reads and writes ("undefined" until first written);
\* awaiting: a ping is out and unanswered; ponged: the client has answered the
\* last ping.
WsAbsent == [st |-> "absent", isAlive |-> "undefined", awaiting |-> FALSE, ponged |-> FALSE]

WsInit ==
    /\ wsClients = [c \in WsIds |-> WsAbsent]
    /\ wsTicks = 0

\* A client connects; the snippet sets nothing on the new socket.
WsConnect(c) ==
    /\ wsClients[c].st = "absent"
    /\ wsClients' = [wsClients EXCEPT ![c] = [WsAbsent EXCEPT !.st = "open"]]
    /\ UNCHANGED <<wsTicks, noteVars, rateVars, jwtVars, loginVars, clVars, scVars>>

\* What the interval callback does to one socket of wss.clients:
\* if (ws.isAlive === false) return ws.terminate(); ws.isAlive = false; ws.ping();
Beat(cl) ==
    IF cl.st # "open" THEN cl
    ELSE IF cl.isAlive = "false"
         THEN [cl EXCEPT !.st = "terminated"]
         ELSE [cl EXCEPT !.isAlive = "false", !.awaiting = TRUE, !.ponged = FALSE]

\* setInterval(() => wss.clients.forEach(...), 30000): 30 seconds have passed.
WsTick ==
    /\ wsTicks < MaxWsTicks
    /\ wsTicks' = wsTicks + 1
    /\ wsClients' = [c \in WsIds |-> Beat(wsClients[c])]
    /\ UNCHANGED <<noteVars, rateVars, jwtVars, loginVars, clVars, scVars>>

\* wss.on('pong', () => { ws.isAlive = true; }): the listener is registered on
\* the server object, which emits no 'pong' event (the socket that received
\* the pong does), so it never runs and the socket is left as it is.
OnPong(cl) == cl

\* The client answers the ping; the pong reaches the server.
WsPong(c) ==
    /\ wsClients[c].st = "open" /\ wsClients[c].awaiting
    /\ wsClients' = [wsClients EXCEPT
                        ![c] = [OnPong(wsClients[c]) EXCEPT !.awaiting = FALSE, !.ponged = TRUE]]
    /\ UNCHANGED <<wsTicks, noteVars, rateVars, jwtVars, loginVars, clVars, scVars>>

\* The client closes its connection itself.
WsLeave(c) ==
    /\ wsClients[c].st = "open"
    /\ wsClients' = [wsClients EXCEPT ![c] = WsAbsent]
    /\ UNCHANGED <<wsTicks, noteVars, rateVars, jwtVars, loginVars, clVars, scVars>>

-----------------------------------------------------------------------------
(* The clustered HTTP server and the graceful-shutdown snippet.             *)

MaxCPUs == 2

MaxDeaths == 2

\* cluster gives workers the ids 1, 2, ...; enough ids for the first workers,
\* a replacement per death and a replacement per worker killed by shutdown.
WorkerIds == 1..(MaxCPUs + MaxDeaths + MaxCPUs)

\* A worker is "none" (not forked yet), "starting" (forked, not listening),
\* "online" (listening on 8000), "killed" (kill() sent, still running) or
\* "dead" (exited and gone from cluster.workers).
Live(ws) == {w \in WorkerIds : ws[w] \in {"starting", "online"}}

Running(ws) == {w \in WorkerIds : ws[w] \in {"starting", "online", "killed"}}

ClIdle ==
    /\ numCPUs = 0
    /\ masterPc = "idle"
    /\ workers = [w \in WorkerIds |-> "none"]
    /\ exitEvents = {}
    /\ nextId = 1
    /\ deaths = 0
    /\ restartOnExit = FALSE
    /\ shutdownRan = FALSE
    /\ served = 0

\* The master has read os.cpus().length and is about to enter the for loop.
ClInit ==
    /\ numCPUs \in 1..MaxCPUs
    /\ masterPc = "fork"
    /\ workers = [w \in WorkerIds |-> "none"]
    /\ exitEvents = {}
    /\ nextId = 1
    /\ deaths = 0
    /\ restartOnExit = FALSE
    /\ shutdownRan = FALSE
    /\ served = 0

\* cluster.fork(): a new worker process with the next id.
Fork(ws, id) == [ws EXCEPT ![id] = "starting"]

\* for (let i = 0; i < numCPUs; i++) cluster.fork();
ClFork ==
    /\ masterPc = "fork"
    /\ IF nextId <= numCPUs
       THEN /\ workers' = Fork(workers, nextId)
            /\ nextId' = nextId + 1
            /\ UNCHANGED masterPc
       ELSE /\ masterPc' = "register"
            /\ UNCHANGED <<workers, nextId>>
    /\ UNCHANGED <<numCPUs, exitEvents, deaths, restartOnExit, shutdownRan, served, noteVars, rateVars, jwtVars, loginVars, wsVars, scVars>>

\* cluster.on("exit", () => { ...; cluster.fork(); }) and the end of the
\* master's script.
ClRegisterExit ==
    /\ masterPc = "register"
    /\ restartOnExit' = TRUE
    /\ masterPc' = "running"
    /\ UNCHANGED <<numCPUs, workers, exitEvents, nextId, deaths, shutdownRan, served, noteVars, rateVars, jwtVars, loginVars, wsVars, scVars>>

\* cluster.on("exit", ...) of the basic setup, which only logs.
ClRegisterLog ==
    /\ masterPc = "register"
    /\ masterPc' = "running"
    /\ UNCHANGED <<numCPUs, workers, exitEvents, nextId, deaths, restartOnExit, shutdownRan, served, noteVars, rateVars, jwtVars, loginVars, wsVars, scVars>>

\* The else branch in a worker: http.createServer(...).listen(8000).
WorkerListen(w) ==
    /\ workers[w] = "starting"
    /\ workers' = [workers EXCEPT ![w] = "online"]
    /\ UNCHANGED <<numCPUs, masterPc, exitEvents, nextId, deaths, restartOnExit, shutdownRan, served, noteVars, rateVars, jwtVars, loginVars, wsVars, scVars>>

\* A connection to port 8000 is handed to a listening worker, which answers
\* 200; the master has no server of its own.
Serve(w) ==
    /\ workers[w] = "online"
    /\ served' = w
    /\ UNCHANGED <<numCPUs, masterPc, workers, exitEvents, nextId, deaths, restartOnExit, shutdownRan, noteVars, rateVars, jwtVars, loginVars, wsVars, scVars>>

\* A worker process dies on its own; the master will get an 'exit' event.
WorkerDie(w) ==
    /\ workers[w] \in {"starting", "online"}
    /\ deaths < MaxDeaths
    /\ deaths' = deaths + 1
    /\ workers' = [workers EXCEPT ![w] = "dead"]
    /\ exitEvents' = exitEvents \cup {w}
    /\ UNCHANGED <<numCPUs, masterPc, nextId, restartOnExit, shutdownRan, served, noteVars, rateVars, jwtVars, loginVars, wsVars, scVars>>

\* A worker that was sent kill() exits.
WorkerExit(w) ==
    /\ workers[w] = "killed"
    /\ workers' = [workers EXCEPT ![w] = "dead"]
    /\ exitEvents' = exitEvents \cup {w}
    /\ UNCHANGED <<numCPUs, masterPc, nextId, deaths, restartOnExit, shutdownRan, served, noteVars, rateVars, jwtVars, loginVars, wsVars, scVars>>

\* An 'exit' listener that only logs.
RestartNone(ws, id) == ws

\* The body of the restarting 'exit' listener: cluster.fork().
Restart(ws, id) == Fork(ws, id)

\* The master's event loop delivers one 'exit' event to the registered
\* listener; events are delivered only once the master's script has ended.
OnExit(w) ==
    /\ masterPc = "running"
    /\ w \in exitEvents
    /\ exitEvents' = exitEvents \ {w}
    /\ IF restartOnExit
       THEN /\ workers' = Restart(workers, nextId)
            /\ nextId' = nextId + 1
       ELSE UNCHANGED <<workers, nextId>>
    /\ UNCHANGED <<numCPUs, masterPc, deaths, restartOnExit, shutdownRan, served, noteVars, rateVars, jwtVars, loginVars, wsVars, scVars>>

Signals == {"SIGTERM", "SIGINT"}

\* shutdown: for (const id in cluster.workers) cluster.workers[id].kill();
Shutdown(ws) ==
    [w \in WorkerIds |-> IF ws[w] \in {"starting", "online"} THEN "killed" ELSE ws[w]]

\* process.on("SIGTERM", shutdown); process.on("SIGINT", shutdown): the first
\* termination signal reaches the master.
Signal(sig) ==
    /\ masterPc = "running"
    /\ ~shutdownRan
    /\ shutdownRan' = TRUE
    /\ workers' = Shutdown(workers)
    /\ UNCHANGED <<numCPUs, masterPc, exitEvents, nextId, deaths, restartOnExit, served, noteVars, rateVars, jwtVars, loginVars, wsVars, scVars>>

-----------------------------------------------------------------------------
(* The example scripts: the EventEmitter workout and the event-loop          *)
(* examples, run by one model of node's script execution and event loop.    *)

MaxStmtMs == 1

MaxLoopMs == 2

\* Statements of a script.
Log(text)              == [op |-> "log", a |-> text, b |-> "", n |-> 0]
SetTimeout(text, ms)   == [op |-> "setTimeout", a |-> text, b |-> "", n |-> ms]
Then(text)             == [op |-> "then", a |-> text, b |-> "", n |-> 0]
SetImmediate(text)     == [op |-> "setImmediate", a |-> text, b |-> "", n |-> 0]
BlockingLoop           == [op |-> "loop", a |-> "", b |-> "", n |-> 0]
On(ev, fn)             == [op |-> "on", a |-> ev, b |-> fn, n |-> 0]
Once(ev, fn)           == [op |-> "once", a |-> ev, b |-> fn, n |-> 0]
Off(ev, fn)            == [op |-> "off", a |-> ev, b |-> fn, n |-> 0]
Emit(ev, arg)          == [op |-> "emit", a |-> ev, b |-> arg, n |-> 0]

\* The EventEmitter statements of the workout, in file order.
Workout ==
    << On("greet", "greet"),
       On("farewell", "farewell"),
       Emit("greet", "Alice"),
       Emit("farewell", "Bob"),
       On("dataReceived", "dataReceived"),
       Emit("dataReceived", "Hello World"),
       Emit("dataReceived", "42"),
       Emit("dataReceived", "[object Object]"),
       Once("onceEvent", "onceEvent"),
       Emit("onceEvent", ""),
       Emit("onceEvent", ""),
       On("farewell", "farewellListener"),
       Off("farewell", "farewellListener"),
       Emit("farewell", "Charlie") >>

Example8 ==
    << Log("Start"),
       SetTimeout("Timeout callback", 0),
       Then("Promise callback"),
       Log("End") >>

Example9 ==
    << Log("Start"),
       SetTimeout("Timer callback", 100),
       Then("Promise callback"),
       SetImmediate("Immediate callback"),
       Log("End") >>

Example10 ==
    << Log("Start"),
       SetTimeout("Timeout callback", 0),
       BlockingLoop,
       Log("End") >>

ScriptNames == {"workout", "example8", "example9", "example10"}

Prog(name) ==
    CASE name = "workout" -> Workout
      [] name = "example8" -> Example8
      [] name = "example9" -> Example9
      [] name = "example10" -> Example10
      [] OTHER -> << >>

\* What a listener of the workout prints for an argument; the template
\* literal is kept as its pieces.
Template(fn, arg) ==
    CASE fn = "greet" -> <<"Hello, ", arg, "!">>
      [] fn = "farewell" -> <<"Goodbye, ", arg, "!">>
      [] fn = "dataReceived" -> <<"Data received: ", arg>>
      [] fn = "onceEvent" -> <<"This will only run once">>
      [] fn = "farewellListener" -> <<"Farewell listener for ", arg>>
      [] OTHER -> << >>

RemoveAt(s, i) == SubSeq(s, 1, i - 1) \o SubSeq(s, i + 1, Len(s))

\* emitter.off(ev, fn): removes the most recently added instance of fn.
OffListener(ls, ev, fn) ==
    LET hits == {i \in DOMAIN ls : ls[i].ev = ev /\ ls[i].fn = fn}
    IN  IF hits = {} THEN ls
        ELSE RemoveAt(ls, CHOOSE i \in hits : \A j \in hits : j <= i)

RECURSIVE Printed(_, _, _)
\* emitter.emit(ev, arg): what the listeners of ev print, in the order they
\* were added.
Printed(ls, ev, arg) ==
    IF ls = << >> THEN << >>
    ELSE IF Head(ls).ev = ev
         THEN <<Template(Head(ls).fn, arg)>> \o Printed(Tail(ls), ev, arg)
         ELSE Printed(Tail(ls), ev, arg)

RECURSIVE AfterEmit(_, _)
\* emitter.emit(ev, ...): a once listener of ev is removed when it is called.
AfterEmit(ls, ev) ==
    IF ls = << >> THEN << >>
    ELSE IF Head(ls).ev = ev /\ Head(ls).once
         THEN AfterEmit(Tail(ls), ev)
         ELSE <<Head(ls)>> \o AfterEmit(Tail(ls), ev)

ScIdle ==
    /\ script = "none"
    /\ scPc = [phase |-> "idle", i |-> 0]
    /\ clock = 0
    /\ microtasks = << >>
    /\ timerQ = << >>
    /\ immediates = << >>
    /\ listeners = << >>
    /\ output = << >>

\* node starts one of the scripts.
ScInit ==
    /\ script \in ScriptNames
    /\ scPc = [phase |-> "main", i |-> 1]
    /\ clock = 0
    /\ microtasks = << >>
    /\ timerQ = << >>
    /\ immediates = << >>
    /\ listeners = << >>
    /\ output = << >>

\* The statement the script is at, if any.
AtStmt(kind) ==
    /\ scPc.phase = "main"
    /\ scPc.i <= Len(Prog(script))
    /\ Prog(script)[scPc.i].op = kind

ScStmt == Prog(script)[scPc.i]

\* The statement is done; it took ms milliseconds.
Done(ms) ==
    /\ scPc' = [scPc EXCEPT !.i = @ + 1]
    /\ clock' = clock + ms

\* console.log(text) in the script.
ScLog(ms) ==
    /\ AtStmt("log")
    /\ output' = Append(output, <<ScStmt.a>>)
    /\ Done(ms)
    /\ UNCHANGED <<script, microtasks, timerQ, immediates, listeners, noteVars, rateVars, jwtVars, loginVars, wsVars, clVars>>

\* setTimeout(cb, delay): node turns a delay below 1 ms into 1 ms.
ScSetTimeout(ms) ==
    /\ AtStmt("setTimeout")
    /\ timerQ' = Append(timerQ, [due |-> clock + (IF ScStmt.n >= 1 THEN ScStmt.n ELSE 1),
                                 text |-> ScStmt.a])
    /\ Done(ms)
    /\ UNCHANGED <<script, microtasks, immediates, listeners, output, noteVars, rateVars, jwtVars, loginVars, wsVars, clVars>>

\* Promise.resolve().then(cb): cb goes to the microtask queue.
ScThen(ms) ==
    /\ AtStmt("then")
    /\ microtasks' = Append(microtasks, ScStmt.a)
    /\ Done(ms)
    /\ UNCHANGED <<script, timerQ, immediates, listeners, output, noteVars, rateVars, jwtVars, loginVars, wsVars, clVars>>

\* setImmediate(cb): cb goes to the check queue.
ScSetImmediate(ms) ==
    /\ AtStmt("setImmediate")
    /\ immediates' = Append(immediates, ScStmt.a)
    /\ Done(ms)
    /\ UNCHANGED <<script, microtasks, timerQ, listeners, output, noteVars, rateVars, jwtVars, loginVars, wsVars, clVars>>

\* for (let i = 0; i < 1e9; i++); only takes time.
ScLoop(ms) ==
    /\ AtStmt("loop")
    /\ Done(ms)
    /\ UNCHANGED <<script, microtasks, timerQ, immediates, listeners, output, noteVars, rateVars, jwtVars, loginVars, wsVars, clVars>>

\* eventEmitter.on(ev, fn)
ScOn(ms) ==
    /\ AtStmt("on")
    /\ listeners' = Append(listeners, [ev |-> ScStmt.a, fn |-> ScStmt.b, once |-> FALSE])
    /\ Done(ms)
    /\ UNCHANGED <<script, microtasks, timerQ, immediates, output, noteVars, rateVars, jwtVars, loginVars, wsVars, clVars>>

\* eventEmitter.once(ev, fn)
ScOnce(ms) ==
    /\ AtStmt("once")
    /\ listeners' = Append(listeners, [ev |-> ScStmt.a, fn |-> ScStmt.b, once |-> TRUE])
    /\ Done(ms)
    /\ UNCHANGED <<script, microtasks, timerQ, immediates, output, noteVars, rateVars, jwtVars, loginVars, wsVars, clVars>>

\* eventEmitter.off(ev, fn)
ScOff(ms) ==
    /\ AtStmt("off")
    /\ listeners' = OffListener(listeners, ScStmt.a, ScStmt.b)
    /\ Done(ms)
    /\ UNCHANGED <<script, microtasks, timerQ, immediates, output, noteVars, rateVars, jwtVars, loginVars, wsVars, clVars>>

\* eventEmitter.emit(ev, arg): the listeners run synchronously.
ScEmit(ms) ==
    /\ AtStmt("emit")
    /\ output' = output \o Printed(listeners, ScStmt.a, ScStmt.b)
    /\ listeners' = AfterEmit(listeners, ScStmt.a)
    /\ Done(ms)
    /\ UNCHANGED <<script, microtasks, timerQ, immediates, noteVars, rateVars, jwtVars, loginVars, wsVars, clVars>>

\* The script has run to its end; the event loop starts with its timers phase.
ScEnd ==
    /\ scPc.phase = "main"
    /\ scPc.i > Len(Prog(script))
    /\ scPc' = [scPc EXCEPT !.phase = "timers"]
    /\ UNCHANGED <<script, clock, microtasks, timerQ, immediates, listeners, output, noteVars, rateVars, jwtVars, loginVars, wsVars, clVars>>

\* The microtask queue is drained after the script and after every callback,
\* before the event loop goes on.
ScMicrotask(ms) ==
    /\ scPc.phase \in {"timers", "poll", "check"}
    /\ microtasks # << >>
    /\ output' = Append(output, <<Head(microtasks)>>)
    /\ microtasks' = Tail(microtasks)
    /\ clock' = clock + ms
    /\ UNCHANGED <<script, scPc, timerQ, immediates, listeners, noteVars, rateVars, jwtVars, loginVars, wsVars, clVars>>

\* Every timer, expired or not.
AllTimers == DOMAIN timerQ

\* The timers that have expired, and the one to run first: the earliest due,
\* the earliest set among equals.
Expired == {i \in DOMAIN timerQ : timerQ[i].due <= clock}

FirstTimer(set) ==
    CHOOSE i \in set : \A j \in set :
        \/ timerQ[i].due < timerQ[j].due
        \/ timerQ[i].due = timerQ[j].due /\ i <= j

\* Timers phase: run an expired timer's callback.
ScTimer(ms) ==
    /\ scPc.phase = "timers"
    /\ microtasks = << >>
    /\ Expired # {}
    /\ output' = Append(output, <<timerQ[FirstTimer(Expired)].text>>)
    /\ timerQ' = RemoveAt(timerQ, FirstTimer(Expired))
    /\ clock' = clock + ms
    /\ UNCHANGED <<script, scPc, microtasks, immediates, listeners, noteVars, rateVars, jwtVars, loginVars, wsVars, clVars>>

\* Timers phase is over: no expired timer is left.
ScTimersDone ==
    /\ scPc.phase = "timers"
    /\ microtasks = << >>
    /\ Expired = {}
    /\ scPc' = [scPc EXCEPT !.phase = "poll"]
    /\ UNCHANGED <<script, clock, microtasks, timerQ, immediates, listeners, output, noteVars, rateVars, jwtVars, loginVars, wsVars, clVars>>

\* Poll phase: go on to the check phase if an immediate is queued, else wait
\* for the next timer, else the loop has nothing left and node exits.
ScPoll ==
    /\ scPc.phase = "poll"
    /\ microtasks = << >>
    /\ IF immediates # << >>
       THEN /\ scPc' = [scPc EXCEPT !.phase = "check"]
            /\ UNCHANGED clock
       ELSE IF timerQ # << >>
            THEN /\ scPc' = [scPc EXCEPT !.phase = "timers"]
                 /\ clock' = IF timerQ[FirstTimer(DOMAIN timerQ)].due > clock
                              THEN timerQ[FirstTimer(DOMAIN timerQ)].due
                              ELSE clock
            ELSE /\ scPc' = [scPc EXCEPT !.phase = "exit"]
                 /\ UNCHANGED clock
    /\ UNCHANGED <<script, microtasks, timerQ, immediates, listeners, output, noteVars, rateVars, jwtVars, loginVars, wsVars, clVars>>

\* Check phase: run a setImmediate callback.
ScImmediate(ms) ==
    /\ scPc.phase = "check"
    /\ microtasks = << >>
    /\ immediates # << >>
    /\ output' = Append(output, <<Head(immediates)>>)
    /\ immediates' = Tail(immediates)
    /\ clock' = clock + ms
    /\ UNCHANGED <<script, scPc, microtasks, timerQ, listeners, noteVars, rateVars, jwtVars, loginVars, wsVars, clVars>>

\* Check phase is over; the next iteration of the loop begins.
ScCheckDone ==
    /\ scPc.phase = "check"
    /\ microtasks = << >>
    /\ immediates = << >>
    /\ scPc' = [scPc EXCEPT !.phase = "timers"]
    /\ UNCHANGED <<script, clock, microtasks, timerQ, immediates, listeners, output, noteVars, rateVars, jwtVars, loginVars, wsVars, clVars>>

ExtInit == LoginInit /\ WsInit /\ ClIdle /\ ScIdle

-----------------------------------------------------------------------------
(* Specifications.                                                          *)

\* The note server, one request at a time.
Init == NoteInit /\ RateInit /\ JwtInit /\ ExtInit

Next ==
    \/ ConnectDB \/ Use \/ SetViews \/ DefinePort \/ Listen
    \/ \E q \in Requests : Arrive(1, q)
    \/ Static(1) \/ Json(1) \/ Urlencoded(1) \/ Cors(1)
    \/ CacheControl(1) \/ Router(1) \/ Final(1) \/ Close(1)

Spec == Init /\ [][Next]_vars

\* The note server with controllers that may throw.
NextFault ==
    \/ ConnectDB \/ Use \/ SetViews \/ DefinePort \/ Listen
    \/ \E q \in Requests : Arrive(1, q)
    \/ Static(1) \/ Json(1) \/ Urlencoded(1) \/ Cors(1)
    \/ CacheControl(1) \/ Router(1) \/ Final(1) \/ Close(1)
    \/ ControllerThrows(1)
    \/ ControllerThrowsAsync(1)

SpecFault == Init /\ [][NextFault]_vars

\* The note server with NumInFlight requests in flight at once.
ConcRequests ==
    { [method |-> "GET",     path |-> Path(<<>>, FALSE),                   body |-> "none"],
      [method |-> "GET",     path |-> Path(<<"notes">>, FALSE),            body |-> "none"],
      [method |-> "GET",     path |-> Path(<<"css", "style.css">>, FALSE), body |-> "none"],
      [method |-> "POST",    path |-> Path(<<"express">>, FALSE),          body |-> "badjson"],
      [method |-> "OPTIONS", path |-> Path(<<"http">>, FALSE),             body |-> "none"] }

NextConc ==
    \/ ConnectDB \/ Use \/ SetViews \/ DefinePort \/ Listen
    \/ \E r \in Slots :
         \/ \E q \in ConcRequests : Arrive(r, q)
         \/ Static(r) \/ Json(r) \/ Urlencoded(r) \/ Cors(r)
         \/ CacheControl(r) \/ Router(r) \/ Final(r) \/ Close(r)

SpecConc == Init /\ [][NextConc]_vars

-----------------------------------------------------------------------------
(* Properties of the note server.                                          *)

Root        == Path(<<>>, FALSE)
ExpressPath == Path(<<"express">>, FALSE)
HttpPath    == Path(<<"http">>, FALSE)

\* C1: a GET request to "/", "/express" or "/http" is answered with status
\* 200 and the home, express or http view, by viewHome, viewExpress or
\* viewHTTP respectively and by no other controller.
C1_RouteDispatch ==
    \A r \in Slots :
        LET s == reqs[r] IN
        (s.st = "done" /\ s.q.method = "GET") =>
            /\ s.q.path = Root =>
                   s.status = 200 /\ s.body = "home" /\ s.called = <<"viewHome">>
            /\ s.q.path = ExpressPath =>
                   s.status = 200 /\ s.body = "express" /\ s.called = <<"viewExpress">>
            /\ s.q.path = HttpPath =>
                   s.status = 200 /\ s.body = "http" /\ s.called = <<"viewHTTP">>

C1_Witness ==
    \E r \in Slots :
        /\ reqs[r].st = "done" /\ reqs[r].q.method = "GET"
        /\ reqs[r].q.path = HttpPath
        /\ reqs[r].status = 200 /\ reqs[r].called = <<"viewHTTP">>

\* The request names a file of the public directory.
IsPublicFile(q) == ~q.path.slash /\ q.path.segs \in PublicFiles

\* C2 as stated, in the part a GET request decides: no request to a path
\* other than "/", "/express" and "/http" that names no public file calls a
\* controller, and a GET request to such a path ends with status 404.
C2_OtherPathIs404 ==
    \A r \in Slots :
        LET s == reqs[r] IN
        ( /\ s.q.path \notin {Root, ExpressPath, HttpPath}
          /\ ~IsPublicFile(s.q) ) =>
            /\ s.called = <<>>
            /\ (s.st = "done" /\ s.q.method = "GET") => s.status = 404

\* The path is none of the three routed paths, compared without regard to
\* letter case or a trailing slash.
Unrouted(q) == Lower(q.path.segs) \notin { <<>>, <<"express">>, <<"http">> }

\* C2 amended: a request whose path is none of "/", "/express", "/http" in
\* any letter case and with or without a trailing slash, and names no public
\* file, never calls a controller; it ends with status 404 unless an earlier
\* layer has answered it: 204 for an OPTIONS request when CLIENT_URL is set,
\* 400 for a body that does not parse.
C2_UnroutedPath ==
    \A r \in Slots :
        LET s == reqs[r] IN
        (s.st # "free" /\ Unrouted(s.q) /\ ~IsPublicFile(s.q)) =>
            /\ s.called = <<>>
            /\ s.st = "done" =>
                  s.status = CASE s.q.body = "badjson" -> 400
                               [] s.q.body # "badjson" /\ s.q.method = "OPTIONS"
                                  /\ env.CLIENT_URL = JsStr("http://localhost:3000") -> 204
                               [] OTHER -> 404

C2_Witness ==
    \E r \in Slots :
        /\ reqs[r].st = "done" /\ reqs[r].q.method = "GET"
        /\ reqs[r].q.path = Path(<<"http", "intro">>, FALSE)
        /\ reqs[r].status = 404 /\ reqs[r].called = <<>>

\* C3: a POST or PUT request, to whatever path, never calls a controller,
\* although the CORS options list POST and PUT (and GET) as allowed methods.
C3_NoPostPutHandler ==
    /\ CorsAllowedMethods = {"GET", "POST", "PUT"}
    /\ \A r \in Slots :
          reqs[r].q.method \in {"POST", "PUT"} => reqs[r].called = <<>>

C3_Witness ==
    \E r \in Slots :
        /\ reqs[r].st = "done" /\ reqs[r].q.method = "POST"
        /\ reqs[r].q.path = ExpressPath /\ reqs[r].q.body = "json"
        /\ reqs[r].acao /\ reqs[r].status = 404 /\ reqs[r].called = <<>>

\* C4 as stated: the server listens on PORT whenever PORT is set, and on
\* 5000 when it is not set.
C4_PortWhenSet ==
    listening =>
        IF env.PORT.type = "undefined" THEN port = JsNum(5000) ELSE port = env.PORT

\* C4 amended: the server listens on PORT when PORT is set to a non-empty
\* string, and on 5000 when PORT is not set or is the empty string.
C4_PortOrDefault ==
    listening =>
        IF env.PORT.type = "string" /\ env.PORT.str # ""
        THEN port = env.PORT
        ELSE port = JsNum(5000)

C4_Witness == listening /\ env.PORT = JsStr("") /\ port = JsNum(5000)

ChainOrder == << "static", "json", "urlencoded", "cors", "cache", "router" >>

\* C5: the layers a request has gone through are always an initial part of
\* static, json, urlencoded, cors, cache-control, router, in this order; every
\* layer but the last one entered has passed the request on with next(), so a
\* layer that ends the response (or reports an error) is the last to run.
C5_ChainOrder ==
    \A r \in Slots :
        LET s == reqs[r] IN
        /\ Len(s.ran) <= Len(ChainOrder)
        /\ s.ran = SubSeq(ChainOrder, 1, Len(s.ran))
        /\ Len(s.out) = Len(s.ran)
        /\ \A i \in 1..(Len(s.out) - 1) : s.out[i] = "next"
        /\ (s.out # <<>> /\ s.out[Len(s.out)] = "end") => s.st = "done"
        /\ s.st = "inflight" /\ s.err = 0 => s.idx = Len(s.ran) + 1

C5_Witness ==
    \E r \in Slots :
        /\ reqs[r].st = "done"
        /\ reqs[r].ran = << "static", "json", "urlencoded", "cors" >>
        /\ reqs[r].out = << "next", "next", "next", "end" >>

\* C6 as stated: an exception raised while a request is handled crashes the
\* process instead of becoming an error response.
C6_ExceptionCrashes ==
    \A r \in Slots : reqs[r].raised # "none" => ~alive

\* C6 amended: no error-handling layer is registered and nothing recovers the
\* process.  An exception a controller throws while Express is calling it is
\* answered by Express's default handler with status 500 and the process
\* keeps serving; an exception thrown later, outside Express's call (in an
\* asynchronous callback), crashes the process, which then answers no request.
C6_DefaultErrorHandling ==
    /\ \A i \in 1..Len(stack) : stack[i] \notin ErrorLayers
    /\ \A r \in Slots :
          LET s == reqs[r] IN
          /\ s.raised = "sync" =>
                /\ s.err = 500
                /\ s.st = "done" => s.status = 500
          /\ (s.st = "done" /\ s.err # 0) => s.status = s.err
          /\ s.raised = "async" => ~alive /\ s.st = "dropped" /\ s.status = 0
    /\ ~alive <=> \E r \in Slots : reqs[r].raised = "async"
    /\ (\A r \in Slots : reqs[r].raised # "async") => alive
    /\ ~alive => \A r \in Slots : reqs[r].st \in {"free", "dropped"}

C6_Witness ==
    /\ ~alive
    /\ \E r \in Slots : reqs[r].raised = "async" /\ reqs[r].st = "dropped"

\* The response a request gets when it goes through the stack alone.
RECURSIVE RunChain(_)
RunChain(s) ==
    IF s.st # "inflight" THEN s
    ELSE IF s.err # 0 \/ s.idx > Len(stack) THEN FinalHandler(s)
    ELSE RunChain(RunLayer(stack[s.idx], s, env))

\* C7: with several requests in flight, handled layer by layer in any
\* interleaving, every request gets the response it would get alone: at any
\* moment, what has been done for it so far leads to that same response.
C7_InterleavingIndependent ==
    \A r \in Slots :
        reqs[r].st # "free" => RunChain(reqs[r]) = RunChain(NewSlot(reqs[r].q))

C7_Witness ==
    \E r1, r2 \in Slots :
        /\ r1 # r2
        /\ reqs[r1].st = "done" /\ reqs[r1].cache
        /\ reqs[r2].st = "inflight" /\ reqs[r2].idx = 6
        /\ reqs[r1].q # reqs[r2].q

-----------------------------------------------------------------------------
(* The rate limiter: specification and properties.                         *)

NoteIdle ==
    /\ env = [PORT |-> JsUndefined, CLIENT_URL |-> JsUndefined]
    /\ mainPc = 1
    /\ db = "idle"
    /\ stack = <<>>
    /\ views = FALSE
    /\ port = JsUndefined
    /\ listening = FALSE
    /\ alive = TRUE
    /\ reqs = [r \in Slots |-> FreeSlot]

InitRate == NoteIdle /\ RateInit /\ JwtInit /\ ExtInit

NextRate == RlRequest \/ RlTick

SpecRate == InitRate /\ [][NextRate]_vars

\* Requests received during the windowTime before now.
InWindow == Cardinality({ i \in 1..Len(arrivals) : now - arrivals[i] < windowTime })

\* C8: requestCount is the number of requests received during the preceding
\* windowTime, and the request just answered got 429 exactly when that
\* number exceeded rateLimit.
C8_CountTracksWindow ==
    /\ requestCount = InWindow
    /\ rlStatus # 0 => (rlStatus = 429 <=> InWindow > rateLimit)

-----------------------------------------------------------------------------
(* The JWT snippets: specification and properties.                         *)

InitJwt == NoteIdle /\ RateInit /\ JwtInit /\ ExtInit

NextJwt ==
    \/ \E app \in JwtApps : \E route \in JwtRoutes(app), h \in JwtHeaders :
          JwtArrive(app, route, h)
    \/ AuthenticateToken
    \/ AdminHandler \/ UserHandler \/ ProtectedHandler
    \/ JwtClose

SpecJwt == InitJwt /\ [][NextJwt]_vars

\* What the request presents as its token: the piece after the scheme in
\* "Authorization: <scheme> <token>", if there is a non-empty one.
Presented(h) ==
    IF h.present /\ Len(h.words) >= 2 /\ h.words[2] # Empty THEN h.words[2] ELSE NoWord

\* The token is a JWT signed with the secret that has not expired.
ValidUnder(tok, secret) == tok.kind = "jwt" /\ tok.key = secret /\ ~tok.expired

\* Occurrences of x in the sequence.
Count(seq, x) == Cardinality({ i \in 1..Len(seq) : seq[i] = x })

Authenticated == ValidUnder(Presented(jwtReq.header), Secret(jwtReq.app))

\* C10: a request is answered 401 exactly when the user is not
\* authenticated, and 403 only when the user is authenticated.
C10_DocumentedCodes ==
    jwtPc = "done" =>
        /\ jwtStatus = 401 <=> ~Authenticated
        /\ jwtStatus = 403 => Authenticated

-----------------------------------------------------------------------------
(* The /login routes.                                                       *)

InitLogin == NoteIdle /\ RateInit /\ JwtInit /\ ExtInit

NextLogin ==
    \/ \E app \in LoginApps, c \in Credentials : LoginArrive(app, c)
    \/ LoginSnippet \/ LoginErrors \/ LoginFull
    \/ LoginClose

SpecLogin == InitLogin /\ [][NextLogin]_vars

\* The users a login route knows: the users array of the full example, the
\* hard-coded admin of the error-handling example, none in the first snippet.
KnownUsers(app) ==
    CASE app = "full" -> { <<Users[i].username, Users[i].password>> : i \in 1..Len(Users) }
      [] app = "errors" -> { <<"admin", "password">> }
      [] OTHER -> {}

\* The submitted username and password are those of a known user.
Validated == <<loginReq.username, loginReq.password>> \in KnownUsers(loginReq.app)

\* C11: a /login route returns a token only when the submitted username
\* and password have been validated against a known user, and a request with
\* wrong credentials is answered 401 without a token.
C11_TokenOnlyAfterValidLogin ==
    loginPc = "done" =>
        /\ loginToken # NoWord => Validated
        /\ ~Validated => loginStatus = 401 /\ loginToken = NoWord

-----------------------------------------------------------------------------
(* The WebSocket heartbeat.                                                 *)

InitWs == NoteIdle /\ RateInit /\ JwtInit /\ ExtInit

NextWs ==
    \/ \E c \in WsIds : WsConnect(c)
    \/ WsTick
    \/ \E c \in WsIds : WsPong(c)
    \/ \E c \in WsIds : WsLeave(c)

SpecWs == InitWs /\ [][NextWs]_vars

\* C12: every connected client is pinged at each 30-second tick, and the
\* clients terminated at a tick are those from which no pong was received
\* since the previous ping: a client that answered the ping is not terminated.
C12_TerminatedOnlyWithoutPong ==
    \A c \in WsIds : wsClients[c].st = "terminated" => ~wsClients[c].ponged

-----------------------------------------------------------------------------
(* The clustered HTTP server.                                               *)

InitCluster == NoteIdle /\ RateInit /\ JwtInit /\ LoginInit /\ WsInit /\ ClInit /\ ScIdle

NextCluster ==
    \/ ClFork
    \/ ClRegisterExit
    \/ \E w \in WorkerIds : WorkerListen(w)
    \/ \E w \in WorkerIds : Serve(w)
    \/ \E w \in WorkerIds : WorkerDie(w)
    \/ \E w \in WorkerIds : OnExit(w)

\* The master runs its script to the end and its event loop delivers every
\* pending 'exit' event; workers are not obliged to die or to be asked anything.
SpecCluster ==
    /\ InitCluster
    /\ [][NextCluster]_vars
    /\ WF_vars(ClFork)
    /\ WF_vars(ClRegisterExit)
    /\ \A w \in WorkerIds : WF_vars(OnExit(w))

NumLive == Cardinality(Live(workers))

\* Workers are forked by the loop up to numCPUs and then one per exit; a
\* request is answered by a worker process, never by the master (which has
\* no id among the workers).
ClusterShape ==
    /\ NumLive + Cardinality(exitEvents) <= numCPUs
    /\ masterPc \in {"register", "running"} => NumLive + Cardinality(exitEvents) = numCPUs
    /\ masterPc = "running" => restartOnExit
    /\ served # 0 => served \in WorkerIds /\ workers[served] \in {"online", "dead"}

\* C13: the master forks exactly numCPUs workers and serves no request
\* itself; each exit is answered by one fork, so whenever fewer than numCPUs
\* workers are alive, the number of live workers eventually is numCPUs again.
C13_WorkersRestored ==
    /\ []ClusterShape
    /\ (NumLive < numCPUs) ~> (NumLive = numCPUs)

C13_Witness ==
    /\ masterPc = "running" /\ deaths >= 1 /\ exitEvents = {}
    /\ NumLive = numCPUs /\ nextId = numCPUs + deaths + 1
    /\ served # 0 /\ workers[served] = "dead"

-----------------------------------------------------------------------------
(* Graceful shutdown of the cluster.                                        *)

InitShutdown == NoteIdle /\ RateInit /\ JwtInit /\ LoginInit /\ WsInit /\ ClInit /\ ScIdle

NextShutdown ==
    \/ ClFork
    \/ ClRegisterExit
    \/ ClRegisterLog
    \/ \E w \in WorkerIds : WorkerListen(w)
    \/ \E w \in WorkerIds : Serve(w)
    \/ \E w \in WorkerIds : WorkerExit(w)
    \/ \E w \in WorkerIds : OnExit(w)
    \/ \E sig \in Signals : Signal(sig)

\* The master runs its script to the end, a killed worker exits, and the
\* master's event loop delivers every pending 'exit' event. No worker dies
\* unless it is killed.
SpecShutdown ==
    /\ InitShutdown
    /\ [][NextShutdown]_vars
    /\ WF_vars(ClFork)
    /\ WF_vars(ClRegisterExit \/ ClRegisterLog)
    /\ \A w \in WorkerIds : WF_vars(WorkerExit(w))
    /\ \A w \in WorkerIds : WF_vars(OnExit(w))

NumRunning == Cardinality(Running(workers))

\* C14: once shutdown has run on SIGTERM or SIGINT, eventually no worker
\* process is running any more, whether or not the restarting 'exit'
\* listener is registered.
C14_NoWorkerRemains == shutdownRan ~> [](NumRunning = 0)

-----------------------------------------------------------------------------
(* The example scripts.                                                     *)

InitScripts == NoteIdle /\ RateInit /\ JwtInit /\ LoginInit /\ WsInit /\ ClIdle /\ ScInit

NextScripts ==
    \/ \E ms \in 0..MaxStmtMs : ScLog(ms)
    \/ \E ms \in 0..MaxStmtMs : ScSetTimeout(ms)
    \/ \E ms \in 0..MaxStmtMs : ScThen(ms)
    \/ \E ms \in 0..MaxStmtMs : ScSetImmediate(ms)
    \/ \E ms \in 0..MaxLoopMs : ScLoop(ms)
    \/ \E ms \in 0..MaxStmtMs : ScOn(ms)
    \/ \E ms \in 0..MaxStmtMs : ScOnce(ms)
    \/ \E ms \in 0..MaxStmtMs : ScOff(ms)
    \/ \E ms \in 0..MaxStmtMs : ScEmit(ms)
    \/ ScEnd
    \/ \E ms \in 0..MaxStmtMs : ScMicrotask(ms)
    \/ \E ms \in 0..MaxStmtMs : ScTimer(ms)
    \/ ScTimersDone
    \/ ScPoll
    \/ \E ms \in 0..MaxStmtMs : ScImmediate(ms)
    \/ ScCheckDone

SpecScripts == InitScripts /\ [][NextScripts]_vars

\* The argument appears in a printed line.
Mentions(line, arg) == \E k \in DOMAIN line : line[k] = arg

\* C15: in the workout, once farewellListener has been added and removed,
\* emitting 'farewell' with "Charlie" prints nothing.
C15_NoOutputForCharlie ==
    script = "workout" => \A k \in DOMAIN output : ~Mentions(output[k], "Charlie")

\* The output each event-loop example announces.
Expected(name) ==
    CASE name = "example8" ->
           << <<"Start">>, <<"End">>, <<"Promise callback">>, <<"Timeout callback">> >>
      [] name = "example9" ->
           << <<"Start">>, <<"End">>, <<"Promise callback">>,
              <<"Immediate callback">>, <<"Timer callback">> >>
      [] name = "example10" ->
           << <<"Start">>, <<"End">>, <<"Timeout callback">> >>
      [] OTHER -> << >>

IsPrefix(s, t) == Len(s) <= Len(t) /\ s = SubSeq(t, 1, Len(s))

\* C16: in the event-loop examples the lines are printed in the announced
\* order: the synchronous statements first ("Start", "End", also after the
\* blocking loop), then the promise callback, then the setTimeout callback
\* even with delay 0, and the setImmediate callback before the 100 ms timer;
\* no callback runs while the script is running, and when node exits all
\* lines have been printed.
C16_CallbackOrder ==
    script \in {"example8", "example9", "example10"} =>
        /\ IsPrefix(output, Expected(script))
        /\ scPc.phase = "main" => \A k \in DOMAIN output : output[k] \in {<<"Start">>, <<"End">>}
        /\ scPc.phase = "exit" => output = Expected(script)

C16_Witness ==
    /\ script = "example9" /\ scPc.phase = "exit"
    /\ output = Expected("example9")
    /\ clock > 100

-----------------------------------------------------------------------------
(* The note server and its database connection.                             *)

NextDb ==
    \/ ConnectDB \/ Use \/ SetViews \/ DefinePort \/ Listen
    \/ DbConnected \/ DbFailed
    \/ \E q \in Requests : Arrive(1, q)
    \/ Static(1) \/ Json(1) \/ Urlencoded(1) \/ Cors(1)
    \/ CacheControl(1) \/ Router(1) \/ Final(1) \/ Close(1)

SpecDb == Init /\ [][NextDb]_vars

\* The next layer can handle the request in flight.
CanProceed(r) ==
    ENABLED (\/ Static(r) \/ Json(r) \/ Urlencoded(r) \/ Cors(r)
             \/ CacheControl(r) \/ Router(r) \/ Final(r))

====
